---------------------------- MODULE Spec2Model ----------------------------
(***************************************************************************)
(* A model of two source files of mirrord:                                 *)
(*                                                                         *)
(*   mirrord/protocol/src/file.rs      the remote file-operation messages, *)
(*                                     their conversions and predicates    *)
(*   mirrord/auth/src/credentials.rs   the credentials, the certificate's  *)
(*                                     validity window, license validity   *)
(*                                                                         *)
(* file.rs holds no state: its functions are applied to inputs drawn from  *)
(* bounded sets, and `call` records the last application (the function,    *)
(* its argument, its result).  credentials.rs has state: the Credentials   *)
(* (certificate, key pair) and the UTC clock its methods read.             *)
(***************************************************************************)
EXTENDS Integers, Sequences, FiniteSets, TLC

VARIABLES
    call,         \* the function application at hand: [fn, arg, done, ret]
    now,          \* the UTC clock (Utc::now()), in ticks
    credentials   \* the Credentials struct: [certificate, key_pair]

vars == <<call, now, credentials>>

(***************************************************************************)
(* Results.  A function that can panic returns Panic or Ok(v);             *)
(* Option<u64> is None or Some(v).                                         *)
(***************************************************************************)
Panic == [panic |-> TRUE]
Ok(v) == [panic |-> FALSE, val |-> v]

None == [some |-> FALSE]
Some(v) == [some |-> TRUE, val |-> v]

NoCall == [fn |-> "none", done |-> TRUE]

----------------------------------------------------------------------------
(***************************************************************************)
(* file.rs: DirEntryInternal and the d_reclen computation                  *)
(***************************************************************************)

\* u16: the type of get_d_reclen64's arithmetic and result.
U16_MAX == 2^16 - 1

\* Bitwise AND of two u16 values, bit by bit.
RECURSIVE BitAndBits(_, _, _)
BitAndBits(a, b, n) ==
    IF n = 0 THEN 0
    ELSE (a % 2) * (b % 2) + 2 * BitAndBits(a \div 2, b \div 2, n - 1)

BitAnd(a, b) == BitAndBits(a, b, 16)

\* Bitwise NOT of a u16 value (`!7`).
BitNot(a) == U16_MAX - a

\* `usize as u16`: the cast keeps the low 16 bits.
AsU16(n) == n % (U16_MAX + 1)

(***************************************************************************)
(* u16 addition.  With overflow checks (a debug build) an overflowing `+`  *)
(* panics; without them (a release build) it wraps.                        *)
(***************************************************************************)
AddU16(a, b, overflow_checks) ==
    IF a + b > U16_MAX
    THEN IF overflow_checks THEN Panic ELSE Ok((a + b) % (U16_MAX + 1))
    ELSE Ok(a + b)

(***************************************************************************)
(* A String is a sequence of chars; it is held here as a sequence of runs  *)
(* [cp, n]: the code point cp repeated n >= 1 times.  String::len() is     *)
(* the length in bytes of the UTF-8 encoding.                              *)
(***************************************************************************)
Utf8Len(cp) ==
    IF cp < 128 THEN 1
    ELSE IF cp < 2048 THEN 2
    ELSE IF cp < 65536 THEN 3
    ELSE 4

RECURSIVE StringLen(_)
StringLen(s) ==
    IF s = <<>> THEN 0
    ELSE Utf8Len(Head(s).cp) * Head(s).n + StringLen(Tail(s))

\* The string of the given code points, one run each.
RECURSIVE Str(_)
Str(cps) ==
    IF cps = <<>> THEN <<>>
    ELSE <<[cp |-> Head(cps), n |-> 1]>> \o Str(Tail(cps))

\* fn round_up_to_next_multiple_of_8(x: u16) -> u16 { (x + 7) & !7 }
round_up_to_next_multiple_of_8(x, overflow_checks) ==
    LET sum == AddU16(x, 7, overflow_checks)
    IN  IF sum.panic THEN Panic ELSE Ok(BitAnd(sum.val, BitNot(7)))

\* The 19 bytes of fixed size members + the terminating null of the string.
RECLEN_FIXED == 20

\* pub fn get_d_reclen64(&self) -> u16
get_d_reclen64(self, overflow_checks) ==
    LET sum == AddU16(RECLEN_FIXED, AsU16(StringLen(self.name)), overflow_checks)
    IN  IF sum.panic THEN Panic
        ELSE round_up_to_next_multiple_of_8(sum.val, overflow_checks)

(***************************************************************************)
(* The inputs.                                                             *)
(***************************************************************************)
\* Code points of 1, 2, 3 and 4 UTF-8 bytes: 'a', U+00E9, U+20AC, U+1F600.
Chars == {97, 233, 8364, 128512}

\* The longest run of a short name, and how far around each u16 boundary
\* the long names reach.
MaxRun == 3
Slack == 2

FileTxt == Str(<<102, 105, 108, 101, 46, 116, 120, 116>>)

ShortNames ==
    {<<>>, FileTxt}
    \cup {<<[cp |-> c, n |-> k]>> : c \in Chars, k \in 1..MaxRun}
    \cup {<<[cp |-> c, n |-> k], [cp |-> d, n |-> 1]>> :
              c \in Chars, d \in Chars, k \in 1..MaxRun}

\* Name lengths around the places where the u16 arithmetic leaves the
\* integers: 20 + len + 7 reaching 2^16, 20 + len reaching 2^16, and len
\* itself reaching 2^16.
LongLens ==
    ((U16_MAX - 27 - Slack)..(U16_MAX - 27 + Slack))
    \cup ((U16_MAX - 19 - Slack)..(U16_MAX - 19 + Slack))
    \cup ((U16_MAX + 1 - Slack)..(U16_MAX + 1 + Slack))

LongNames == {<<[cp |-> 97, n |-> k]>> : k \in LongLens}

Names == ShortNames \cup LongNames

DirEntries ==
    {[inode |-> 1, position |-> p, name |-> nm, file_type |-> 0] :
        p \in 0..1, nm \in Names}

\* A call not applied yet, and the call once its function has returned.
Pending(fn, arg, oc) ==
    [fn |-> fn, arg |-> arg, overflow_checks |-> oc, done |-> FALSE]

Returned(c, ret) ==
    [fn |-> c.fn, arg |-> c.arg, overflow_checks |-> c.overflow_checks,
     done |-> TRUE, ret |-> ret]

Calling(fn) == call.fn = fn /\ ~call.done

GetDReclen64Calls ==
    {Pending("get_d_reclen64", self, oc) : self \in DirEntries, oc \in BOOLEAN}

GetDReclen64 ==
    /\ Calling("get_d_reclen64")
    /\ call' = Returned(call, get_d_reclen64(call.arg, call.overflow_checks))
    /\ UNCHANGED <<now, credentials>>

RoundUpCalls ==
    {Pending("round_up_to_next_multiple_of_8", x, oc) :
        x \in 0..U16_MAX, oc \in BOOLEAN}

RoundUp ==
    /\ Calling("round_up_to_next_multiple_of_8")
    /\ call' = Returned(call, round_up_to_next_multiple_of_8(call.arg,
                                                     call.overflow_checks))
    /\ UNCHANGED <<now, credentials>>

----------------------------------------------------------------------------
(***************************************************************************)
(* file.rs: the protocol version gate                                      *)
(*                                                                         *)
(* READDIR_BATCH_VERSION and MKDIR_VERSION are semver requirements parsed  *)
(* from string literals; a text is held as its sequence of characters.     *)
(* A negotiated version is major.minor.patch (no pre-release tag).         *)
(***************************************************************************)
Digits == <<"0", "1", "2", "3", "4", "5", "6", "7", "8", "9">>

IsDigit(c) == \E i \in 1..10 : Digits[i] = c

DigitVal(c) == (CHOOSE i \in 1..10 : Digits[i] = c) - 1

\* A numeric identifier: digits only, not empty, no leading zero.
RECURSIVE ParseDigits(_, _)
ParseDigits(cs, acc) ==
    IF cs = <<>> THEN Ok(acc)
    ELSE IF ~IsDigit(Head(cs)) THEN Panic
    ELSE ParseDigits(Tail(cs), 10 * acc + DigitVal(Head(cs)))

ParseNumericIdentifier(cs) ==
    IF cs = <<>> \/ (Len(cs) > 1 /\ Head(cs) = "0") THEN Panic
    ELSE ParseDigits(cs, 0)

\* The parts of a text between its dots.
RECURSIVE SplitDots(_, _)
SplitDots(cs, part) ==
    IF cs = <<>> THEN <<part>>
    ELSE IF Head(cs) = "." THEN <<part>> \o SplitDots(Tail(cs), <<>>)
    ELSE SplitDots(Tail(cs), Append(part, Head(cs)))

\* The comparison operator a requirement starts with, and the rest.
ParseOp(cs) ==
    IF Len(cs) >= 2 /\ cs[1] = ">" /\ cs[2] = "="
        THEN [op |-> ">=", rest |-> SubSeq(cs, 3, Len(cs))]
    ELSE IF Len(cs) >= 2 /\ cs[1] = "<" /\ cs[2] = "="
        THEN [op |-> "<=", rest |-> SubSeq(cs, 3, Len(cs))]
    ELSE IF Len(cs) >= 1 /\ cs[1] \in {">", "<", "="}
        THEN [op |-> cs[1], rest |-> SubSeq(cs, 2, Len(cs))]
    ELSE [op |-> "^", rest |-> cs]

\* "...".parse::<VersionReq>(): Ok(requirement), or Panic for a text that
\* does not parse (the statics call .expect("Bad Identifier") on it).
ParseVersionReq(cs) ==
    LET o == ParseOp(cs)
        parts == SplitDots(o.rest, <<>>)
    IN  IF Len(parts) # 3 THEN Panic
        ELSE LET major == ParseNumericIdentifier(parts[1])
                 minor == ParseNumericIdentifier(parts[2])
                 patch == ParseNumericIdentifier(parts[3])
             IN  IF major.panic \/ minor.panic \/ patch.panic THEN Panic
                 ELSE Ok([op |-> o.op, major |-> major.val,
                          minor |-> minor.val, patch |-> patch.val])

\* pub static READDIR_BATCH_VERSION = ">=1.9.0".parse().expect(..)
READDIR_BATCH_VERSION_1_10 == ParseVersionReq(<<">", "=", "1", ".", "1", "0", ".", "0">>)

READDIR_BATCH_VERSION == ParseVersionReq(<<">", "=", "1", ".", "9", ".", "0">>)

\* pub static MKDIR_VERSION = ">=1.12.0".parse().expect(..)
MKDIR_VERSION == ParseVersionReq(<<">", "=", "1", ".", "1", "2", ".", "0">>)

\* VersionReq::matches for a requirement of one comparator.
MatchesExact(req, ver) ==
    ver.major = req.major /\ ver.minor = req.minor /\ ver.patch = req.patch

MatchesGreater(req, ver) ==
    IF ver.major # req.major THEN ver.major > req.major
    ELSE IF ver.minor # req.minor THEN ver.minor > req.minor
    ELSE ver.patch > req.patch

MatchesLess(req, ver) ==
    IF ver.major # req.major THEN ver.major < req.major
    ELSE IF ver.minor # req.minor THEN ver.minor < req.minor
    ELSE ver.patch < req.patch

MatchesCaret(req, ver) ==
    /\ ver.major = req.major
    /\ IF req.major > 0
           THEN ver.minor > req.minor
                \/ (ver.minor = req.minor /\ ver.patch >= req.patch)
       ELSE IF req.minor > 0
           THEN ver.minor = req.minor /\ ver.patch >= req.patch
       ELSE ver.minor = req.minor /\ ver.patch = req.patch

Matches(req, ver) ==
    CASE req.op = "="  -> MatchesExact(req, ver)
      [] req.op = ">"  -> MatchesGreater(req, ver)
      [] req.op = ">=" -> MatchesExact(req, ver) \/ MatchesGreater(req, ver)
      [] req.op = "<"  -> MatchesLess(req, ver)
      [] req.op = "<=" -> MatchesExact(req, ver) \/ MatchesLess(req, ver)
      [] OTHER         -> MatchesCaret(req, ver)

\* The gate of a message variant: the static is forced (a text that does
\* not parse panics there), then asked whether it matches the version.
Gate(req, ver) == IF req.panic THEN Panic ELSE Ok(Matches(req.val, ver))

MaxMajor == 2
MaxMinor == 13
MaxPatch == 9

Versions ==
    {[major |-> a, minor |-> b, patch |-> c] :
        a \in 0..MaxMajor, b \in 0..MaxMinor, c \in 0..MaxPatch}

\* The message variants behind each gate.
ReadDirBatchVariants == {"ReadDirBatchRequest"}
MakeDirVariants == {"MakeDirRequest", "MakeDirAtRequest"}

GateCalls ==
    {Pending("READDIR_BATCH_VERSION.matches", [variant |-> m, version |-> v], FALSE) :
        m \in ReadDirBatchVariants, v \in Versions}
    \cup {Pending("MKDIR_VERSION.matches", [variant |-> m, version |-> v], FALSE) :
        m \in MakeDirVariants, v \in Versions}

ReadDirBatchGate ==
    /\ Calling("READDIR_BATCH_VERSION.matches")
    /\ call' = Returned(call, Gate(READDIR_BATCH_VERSION, call.arg.version))
    /\ UNCHANGED <<now, credentials>>

MakeDirGate ==
    /\ Calling("MKDIR_VERSION.matches")
    /\ call' = Returned(call, Gate(MKDIR_VERSION, call.arg.version))
    /\ UNCHANGED <<now, credentials>>

----------------------------------------------------------------------------
(***************************************************************************)
(* file.rs: OpenOptionsInternal                                            *)
(***************************************************************************)
OpenOptionsInternal ==
    [read : BOOLEAN, write : BOOLEAN, append : BOOLEAN,
     truncate : BOOLEAN, create : BOOLEAN, create_new : BOOLEAN]

\* #[derive(Default)]: every flag false.
OpenOptionsDefault ==
    [read |-> FALSE, write |-> FALSE, append |-> FALSE,
     truncate |-> FALSE, create |-> FALSE, create_new |-> FALSE]

is_read_only_any_read(self) == self.read

is_read_only(self) ==
    self.read /\ ~(self.write \/ self.append \/ self.truncate
                   \/ self.create \/ self.create_new)

is_write_no_create_new(self) ==
    self.write \/ self.append \/ self.truncate \/ self.create

is_write(self) ==
    self.write \/ self.append \/ self.truncate \/ self.create
        \/ self.create_new

OpenOptionsCalls ==
    {Pending(fn, o, FALSE) :
        fn \in {"is_read_only", "is_write"}, o \in OpenOptionsInternal}

IsReadOnly ==
    /\ Calling("is_read_only")
    /\ call' = Returned(call, is_read_only(call.arg))
    /\ UNCHANGED <<now, credentials>>

IsWrite ==
    /\ Calling("is_write")
    /\ call' = Returned(call, is_write(call.arg))
    /\ UNCHANGED <<now, credentials>>

----------------------------------------------------------------------------
(***************************************************************************)
(* file.rs: SeekFromInternal and std::io::SeekFrom                         *)
(*                                                                         *)
(* A value of either enum is [type, variant, offset].  Offsets are drawn   *)
(* from -MaxOffset..MaxOffset (from 0 for Start, a u64).                    *)
(***************************************************************************)
MaxOffset == 3

SeekVariant(type, variant, offset) ==
    [type |-> type, variant |-> variant, offset |-> offset]

SeekValues(type) ==
    {SeekVariant(type, "Start", n) : n \in 0..MaxOffset}
    \cup {SeekVariant(type, v, n) :
              v \in {"End", "Current"}, n \in (-MaxOffset)..MaxOffset}

SeekFromInternals == SeekValues("SeekFromInternal")
SeekFroms == SeekValues("SeekFrom")

\* impl From<SeekFromInternal> for SeekFrom
SeekFrom_from(seek_from) ==
    CASE seek_from.variant = "Start" ->
             SeekVariant("SeekFrom", "Start", seek_from.offset)
      [] seek_from.variant = "End" ->
             SeekVariant("SeekFrom", "End", seek_from.offset)
      [] seek_from.variant = "Current" ->
             SeekVariant("SeekFrom", "Current", seek_from.offset)

SeekFromInternal_from_swapped(seek_from) ==
    CASE seek_from.variant = "Start" ->
             SeekVariant("SeekFromInternal", "Start", seek_from.offset)
      [] seek_from.variant = "End" ->
             SeekVariant("SeekFromInternal", "Current", seek_from.offset)
      [] seek_from.variant = "Current" ->
             SeekVariant("SeekFromInternal", "End", seek_from.offset)

\* impl From<SeekFrom> for SeekFromInternal
SeekFromInternal_from(seek_from) ==
    CASE seek_from.variant = "Start" ->
             SeekVariant("SeekFromInternal", "Start", seek_from.offset)
      [] seek_from.variant = "End" ->
             SeekVariant("SeekFromInternal", "End", seek_from.offset)
      [] seek_from.variant = "Current" ->
             SeekVariant("SeekFromInternal", "Current", seek_from.offset)

SeekCalls ==
    {Pending("SeekFrom::from", v, FALSE) : v \in SeekFromInternals}
    \cup {Pending("SeekFromInternal::from", v, FALSE) : v \in SeekFroms}

ToSeekFrom ==
    /\ Calling("SeekFrom::from")
    /\ call' = Returned(call, SeekFrom_from(call.arg))
    /\ UNCHANGED <<now, credentials>>

ToSeekFromInternal ==
    /\ Calling("SeekFromInternal::from")
    /\ call' = Returned(call, SeekFromInternal_from(call.arg))
    /\ UNCHANGED <<now, credentials>>

----------------------------------------------------------------------------
(***************************************************************************)
(* file.rs: the Debug representation of the messages with a byte buffer    *)
(*                                                                         *)
(* A Debug representation is the struct's name and its fields in order,    *)
(* each <<name, value>>, as Formatter::debug_struct writes them.           *)
(***************************************************************************)
MaxBufLen == 2
MaxByte == 1
MaxField == 1

Bytes == 0..MaxByte

Buffers == UNION {[1..n -> Bytes] : n \in 0..MaxBufLen}

ReadFileResponses ==
    {[type |-> "ReadFileResponse", bytes |-> b, read_amount |-> n] :
        b \in Buffers, n \in 0..MaxField}

WriteFileRequests ==
    {[type |-> "WriteFileRequest", fd |-> fd, write_bytes |-> b] :
        fd \in 0..MaxField, b \in Buffers}

WriteLimitedFileRequests ==
    {[type |-> "WriteLimitedFileRequest", remote_fd |-> fd,
      start_from |-> st, write_bytes |-> b] :
        fd \in 0..MaxField, st \in 0..MaxField, b \in Buffers}

BufferMessages ==
    ReadFileResponses \cup WriteFileRequests \cup WriteLimitedFileRequests

DebugStruct(name, fields) == [name |-> name, fields |-> fields]

\* impl fmt::Debug for ReadFileResponse
ReadFileResponse_fmt(self) ==
    DebugStruct("ReadFileResponse",
                << <<"bytes (length)", Len(self.bytes)>>,
                   <<"read_amount", self.read_amount>> >>)

\* impl fmt::Debug for WriteFileRequest
WriteFileRequest_fmt(self) ==
    DebugStruct("WriteFileRequest",
                << <<"fd", self.fd>>,
                   <<"write_bytes (length)", Len(self.write_bytes)>> >>)

\* #[derive(Debug)] on WriteLimitedFileRequest: every field, by its own
\* Debug; a Vec<u8> prints its elements.
WriteLimitedFileRequest_fmt(self) ==
    DebugStruct("WriteLimitedFileRequest",
                << <<"remote_fd", self.remote_fd>>,
                   <<"start_from", self.start_from>>,
                   <<"write_bytes", self.write_bytes>> >>)

Debug_fmt(self) ==
    CASE self.type = "ReadFileResponse" -> ReadFileResponse_fmt(self)
      [] self.type = "WriteFileRequest" -> WriteFileRequest_fmt(self)
      [] self.type = "WriteLimitedFileRequest" ->
             WriteLimitedFileRequest_fmt(self)

DebugCalls == {Pending("fmt::Debug", m, FALSE) : m \in BufferMessages}

DebugFmt ==
    /\ Calling("fmt::Debug")
    /\ call' = Returned(call, Debug_fmt(call.arg))
    /\ UNCHANGED <<now, credentials>>

----------------------------------------------------------------------------
(***************************************************************************)
(* file.rs: DirEntryInternal from (offset, io::Result<DirEntry>)           *)
(*                                                                         *)
(* A native DirEntry is [ino, file_name, metadata]: its metadata() is      *)
(* Ok(mode) or an io::Error.  A file name is an OsString: a run is a code  *)
(* point, or INVALID_BYTE for a byte that is not UTF-8.                    *)
(***************************************************************************)
ResultOk(v) == [is_ok |-> TRUE, val |-> v]
ResultErr(e) == [is_ok |-> FALSE, err |-> e]

\* libc (Linux): the file type field of st_mode and its values.
S_IFMT == 61440
S_IFSOCK == 49152
S_IFLNK == 40960
S_IFREG == 32768
S_IFBLK == 24576
S_IFDIR == 16384
S_IFCHR == 8192
S_IFIFO == 4096

\* libc (Linux): the d_type values.
DT_UNKNOWN == 0
DT_FIFO == 1
DT_CHR == 2
DT_DIR == 4
DT_BLK == 6
DT_REG == 8
DT_LNK == 10
DT_SOCK == 12

\* & on u32 (mode_t).
BitAndU32(a, b) == BitAndBits(a, b, 32)

INVALID_BYTE == -1
REPLACEMENT_CHARACTER == 65533

\* OsStr::to_string_lossy: what is not UTF-8 becomes U+FFFD.
to_string_lossy(os_string) ==
    [i \in 1..Len(os_string) |->
        IF os_string[i].cp = INVALID_BYTE
        THEN [cp |-> REPLACEMENT_CHARACTER, n |-> os_string[i].n]
        ELSE os_string[i]]

file_type_of_mode_unmasked(mode) ==
    CASE mode = S_IFLNK -> DT_LNK
      [] mode = S_IFREG -> DT_REG
      [] mode = S_IFBLK -> DT_BLK
      [] mode = S_IFDIR -> DT_DIR
      [] mode = S_IFCHR -> DT_CHR
      [] mode = S_IFIFO -> DT_FIFO
      [] mode = S_IFSOCK -> DT_SOCK
      [] OTHER -> DT_UNKNOWN

\* match mode & libc::S_IFMT { S_IFLNK => DT_LNK, .., _ => DT_UNKNOWN }
file_type_of_mode(mode) ==
    LET format == BitAndU32(mode, S_IFMT)
    IN  CASE format = S_IFLNK -> DT_LNK
          [] format = S_IFREG -> DT_REG
          [] format = S_IFBLK -> DT_BLK
          [] format = S_IFDIR -> DT_DIR
          [] format = S_IFCHR -> DT_CHR
          [] format = S_IFIFO -> DT_FIFO
          [] format = S_IFSOCK -> DT_SOCK
          [] OTHER -> DT_UNKNOWN

\* impl TryFrom<(usize, io::Result<DirEntry>)> for DirEntryInternal
DirEntryInternal_try_from(offset_entry_pair) ==
    LET offset == offset_entry_pair[1]
        entry == offset_entry_pair[2]
    IN  IF ~entry.is_ok THEN ResultErr(entry.err)
        ELSE IF ~entry.val.metadata.is_ok
            THEN ResultErr(entry.val.metadata.err)
        ELSE ResultOk([inode |-> entry.val.ino,
                       position |-> offset,
                       name |-> to_string_lossy(entry.val.file_name),
                       file_type |->
                           file_type_of_mode(entry.val.metadata.val)])

\* The 16 values of the format field, and bits of st_mode outside it: none,
\* rw-r--r--, rwxr-xr-x, every bit below the format field, and with
\* MaxHighBit > 0 the bits of the u32 above it.
Formats == {f * 4096 : f \in 0..15}

MaxHighBit == 1

OtherBits == {0, 420, 493, 4095} \cup {2^(15 + k) : k \in 1..MaxHighBit}

Modes == {f + b : f \in Formats, b \in OtherBits}

OsStrings ==
    {<<>>, FileTxt,
     <<[cp |-> 97, n |-> 1], [cp |-> INVALID_BYTE, n |-> 1]>>}

NativeDirEntries ==
    {[ino |-> 1, file_name |-> nm, metadata |-> md] :
        nm \in OsStrings,
        md \in {ResultOk(mode) : mode \in Modes}
               \cup {ResultErr("metadata: NotFound")}}

OffsetEntryPairs ==
    {<<offset, entry>> :
        offset \in 0..1,
        entry \in {ResultOk(e) : e \in NativeDirEntries}
                  \cup {ResultErr("read_dir: PermissionDenied")}}

TryFromCalls ==
    {Pending("DirEntryInternal::try_from", pair, FALSE) :
        pair \in OffsetEntryPairs}

TryFromDirEntry ==
    /\ Calling("DirEntryInternal::try_from")
    /\ call' = Returned(call, DirEntryInternal_try_from(call.arg))
    /\ UNCHANGED <<now, credentials>>

----------------------------------------------------------------------------
NoCredentials == [certificate |-> "none", key_pair |-> "none"]

FileCalls ==
    GetDReclen64Calls \cup RoundUpCalls \cup GateCalls \cup OpenOptionsCalls
    \cup SeekCalls \cup DebugCalls \cup TryFromCalls

Init ==
    /\ call \in FileCalls
    /\ now = 0
    /\ credentials = NoCredentials

Next ==
    \/ GetDReclen64
    \/ RoundUp
    \/ ReadDirBatchGate
    \/ MakeDirGate
    \/ IsReadOnly
    \/ IsWrite
    \/ ToSeekFrom
    \/ ToSeekFromInternal
    \/ DebugFmt
    \/ TryFromDirEntry

Spec == Init /\ [][Next]_vars

----------------------------------------------------------------------------
(***************************************************************************)
(* Properties of file.rs, checked under Spec                               *)
(***************************************************************************)
Returns(fn) == call.fn = fn /\ call.done

\* The smallest multiple of 8 that is greater than or equal to x.
RoundUpToMultipleOf8(x) == CHOOSE m \in x..(x + 7) : m % 8 = 0

(***************************************************************************)
(* C1: for every DirEntryInternal, whatever its name, get_d_reclen64       *)
(* returns round_up_to_multiple_of_8(20 + name_length), the sum a plain    *)
(* integer that neither wraps nor is truncated; 32 for "file.txt" and 24   *)
(* for the empty name.                                                     *)
(***************************************************************************)
C1_RecordLengthOfEveryName ==
    Returns("get_d_reclen64") =>
        /\ call.ret = Ok(RoundUpToMultipleOf8(20 + StringLen(call.arg.name)))
        /\ call.arg.name = FileTxt => call.ret = Ok(32)
        /\ call.arg.name = <<>> => call.ret = Ok(24)

(***************************************************************************)
(* C2: for every u16 x, round_up_to_next_multiple_of_8(x) is (x + 7) with  *)
(* its three low bits cleared, the smallest multiple of 8 greater than or  *)
(* equal to x; 0 gives 0, 1 gives 8, 8 gives 8 and 21 gives 24.            *)
(***************************************************************************)
C2_RoundUpOfEveryU16 ==
    Returns("round_up_to_next_multiple_of_8") =>
        /\ call.ret = Ok((call.arg + 7) - ((call.arg + 7) % 8))
        /\ call.ret = Ok(RoundUpToMultipleOf8(call.arg))
        /\ call.arg = 0 => call.ret = Ok(0)
        /\ call.arg = 1 => call.ret = Ok(8)
        /\ call.arg = 8 => call.ret = Ok(8)
        /\ call.arg = 21 => call.ret = Ok(24)

(***************************************************************************)
(* C3: the gate depends on the negotiated version alone: a batched         *)
(* directory read is permitted exactly when the version is at least 1.9.0  *)
(* (1.9.0 permitted, 1.8.9 rejected), a directory creation (MakeDirRequest *)
(* or MakeDirAtRequest) exactly when it is at least 1.12.0 (1.12.0         *)
(* permitted, 1.11.9 rejected).                                            *)
(***************************************************************************)
Version(major, minor, patch) ==
    [major |-> major, minor |-> minor, patch |-> patch]

\* The order of versions, by weighing the components.
VersionWeight(v) == (v.major * 1000 + v.minor) * 1000 + v.patch

AtLeast(v, w) == VersionWeight(v) >= VersionWeight(w)

C3_VersionGate ==
    /\ Returns("READDIR_BATCH_VERSION.matches") =>
        /\ call.ret = Ok(AtLeast(call.arg.version, Version(1, 9, 0)))
        /\ call.arg.version = Version(1, 9, 0) => call.ret = Ok(TRUE)
        /\ call.arg.version = Version(1, 8, 9) => call.ret = Ok(FALSE)
    /\ Returns("MKDIR_VERSION.matches") =>
        /\ call.ret = Ok(AtLeast(call.arg.version, Version(1, 12, 0)))
        /\ call.arg.version = Version(1, 12, 0) => call.ret = Ok(TRUE)
        /\ call.arg.version = Version(1, 11, 9) => call.ret = Ok(FALSE)

C3_Witness ==
    /\ Returns("READDIR_BATCH_VERSION.matches")
    /\ call.arg.version = Version(1, 10, 0)
    /\ call.ret = Ok(TRUE)

(***************************************************************************)
(* C4: for each of the 64 combinations of the six flags, is_read_only and  *)
(* is_write are never both true; with every flag false both are false.     *)
(***************************************************************************)
C4_NeverReadOnlyAndWrite ==
    /\ Returns("is_read_only") =>
        /\ ~(call.ret /\ is_write(call.arg))
        /\ call.arg = OpenOptionsDefault => ~call.ret
    /\ Returns("is_write") =>
        /\ ~(call.ret /\ is_read_only(call.arg))
        /\ call.arg = OpenOptionsDefault => ~call.ret

C4_Witness ==
    /\ Returns("is_read_only")
    /\ call.arg.read /\ call.arg.write
    /\ ~call.ret

(***************************************************************************)
(* C5: is_write is true iff at least one of write, append, truncate,       *)
(* create, create_new is set; is_read_only is true iff read is set and     *)
(* none of those five is.                                                  *)
(***************************************************************************)
WriteFlags == {"write", "append", "truncate", "create", "create_new"}

C5_PredicatesByFlags ==
    /\ Returns("is_write") =>
        (call.ret <=> \E f \in WriteFlags : call.arg[f])
    /\ Returns("is_read_only") =>
        (call.ret <=> (call.arg.read /\ \A f \in WriteFlags : ~call.arg[f]))

C5_Witness ==
    /\ Returns("is_write")
    /\ call.arg.create_new
    /\ \A f \in WriteFlags \ {"create_new"} : ~call.arg[f]
    /\ call.ret

(***************************************************************************)
(* C6: the seek-origin conversion is a bijection that leaves the offset    *)
(* alone: in each direction the result has the argument's variant and      *)
(* offset, and converting it back gives the argument.                      *)
(***************************************************************************)
C6_SeekBijection ==
    /\ Returns("SeekFrom::from") =>
        /\ call.ret \in SeekFroms
        /\ call.ret.variant = call.arg.variant
        /\ call.ret.offset = call.arg.offset
        /\ SeekFromInternal_from(call.ret) = call.arg
    /\ Returns("SeekFromInternal::from") =>
        /\ call.ret \in SeekFromInternals
        /\ call.ret.variant = call.arg.variant
        /\ call.ret.offset = call.arg.offset
        /\ SeekFrom_from(call.ret) = call.arg

C6_Witness ==
    /\ Returns("SeekFrom::from")
    /\ call.arg = SeekVariant("SeekFromInternal", "End", -1)
    /\ call.ret = SeekVariant("SeekFrom", "End", -1)

(***************************************************************************)
(* C7: for ReadFileResponse, WriteFileRequest and WriteLimitedFileRequest, *)
(* the Debug representation reports the length of the byte buffer and      *)
(* never its contents: two messages that differ only in the contents of    *)
(* buffers of equal length have the same Debug representation.             *)
(***************************************************************************)
BufferOf(m) == IF m.type = "ReadFileResponse" THEN m.bytes ELSE m.write_bytes

WithBuffer(m, b) ==
    IF m.type = "ReadFileResponse" THEN [m EXCEPT !.bytes = b]
    ELSE [m EXCEPT !.write_bytes = b]

C7_DebugHidesBufferContents ==
    Returns("fmt::Debug") =>
        \A b \in Buffers :
            Len(b) = Len(BufferOf(call.arg)) =>
                Debug_fmt(WithBuffer(call.arg, b)) = call.ret

(***************************************************************************)
(* C11: when the metadata of a directory entry is read, the file type of   *)
(* the DirEntryInternal depends on mode & S_IFMT alone: S_IFLNK gives      *)
(* DT_LNK, S_IFREG DT_REG, S_IFBLK DT_BLK, S_IFDIR DT_DIR, S_IFCHR DT_CHR, *)
(* S_IFIFO DT_FIFO, S_IFSOCK DT_SOCK and every other format DT_UNKNOWN; a  *)
(* format that is not recognized never fails the conversion, and the bits  *)
(* outside S_IFMT never change the file type.                              *)
(***************************************************************************)
MetadataRead(pair) == pair[2].is_ok /\ pair[2].val.metadata.is_ok

ModeOf(pair) == pair[2].val.metadata.val

\* The format field of a mode: bits 12 to 15.
FormatField(mode) == (mode \div 4096) % 16

\* The file type by the format field: the d_type of a known format is the
\* format field itself.
TagByFormat ==
    [f \in 0..15 |->
        CASE f = 10 -> DT_LNK
          [] f = 8 -> DT_REG
          [] f = 6 -> DT_BLK
          [] f = 4 -> DT_DIR
          [] f = 2 -> DT_CHR
          [] f = 1 -> DT_FIFO
          [] f = 12 -> DT_SOCK
          [] OTHER -> DT_UNKNOWN]

WithMode(pair, mode) ==
    <<pair[1], ResultOk([pair[2].val EXCEPT !.metadata = ResultOk(mode)])>>

C11_FileTypeByFormatAlone ==
    (Returns("DirEntryInternal::try_from") /\ MetadataRead(call.arg)) =>
        /\ call.ret.is_ok
        /\ call.ret.val.file_type = TagByFormat[FormatField(ModeOf(call.arg))]
        /\ \A mode \in Modes :
               FormatField(mode) = FormatField(ModeOf(call.arg)) =>
                   DirEntryInternal_try_from(WithMode(call.arg, mode)).val.file_type
                       = call.ret.val.file_type

\* A symbolic link with permission bits set, and a format no S_IF* names.
C11_Witness ==
    /\ Returns("DirEntryInternal::try_from")
    /\ MetadataRead(call.arg)
    /\ ModeOf(call.arg) = S_IFLNK + 493
    /\ call.ret = ResultOk([inode |-> 1, position |-> 1, name |-> FileTxt,
                            file_type |-> DT_LNK])

----------------------------------------------------------------------------
(***************************************************************************)
(* credentials.rs: time                                                    *)
(*                                                                         *)
(* A DateTime<Utc> is a number of clock ticks, TicksPerDay of them to the  *)
(* day (the clock is finer than a day); a NaiveDate is a number of days.   *)
(* The clock runs from 0 to MaxDay days.                                   *)
(***************************************************************************)
TicksPerDay == 3
MaxDay == 4

MaxNow == MaxDay * TicksPerDay

Instants == 0..MaxNow
Dates == 0..MaxDay

\* Utc::now().naive_utc().date()
DateOf(instant) == instant \div TicksPerDay

\* Duration::num_days(): the whole days of a duration, truncated towards 0.
num_days(duration) ==
    IF duration >= 0 THEN duration \div TicksPerDay
    ELSE -((-duration) \div TicksPerDay)

\* i64 .try_into::<u64>().ok()
TryIntoU64(n) == IF n >= 0 THEN Some(n) ELSE None

\* A call made at clock reading `at`, which returned `ret`.
Made(fn, arg, at, ret) ==
    [fn |-> fn, arg |-> arg, at |-> at, done |-> TRUE, ret |-> ret]

\* The clock advances; what the last call returned is of the past.
Tick ==
    /\ now < MaxNow
    /\ now' = now + 1
    /\ call' = NoCall
    /\ UNCHANGED credentials

----------------------------------------------------------------------------
(***************************************************************************)
(* credentials.rs: LicenseValidity for DateTime<Utc> and for NaiveDate     *)
(***************************************************************************)
\* impl LicenseValidity for DateTime<Utc>
DateTime_is_good(self, utc_now) == utc_now < self

DateTime_days_until_expiration_rounded_up(self, utc_now) ==
    TryIntoU64(-num_days(utc_now - self - (TicksPerDay - 1)))

DateTime_days_until_expiration(self, utc_now) ==
    TryIntoU64(num_days(self - utc_now))

\* impl LicenseValidity for NaiveDate
NaiveDate_is_good_before(self, utc_now) == DateOf(utc_now) < self

NaiveDate_is_good(self, utc_now) == DateOf(utc_now) <= self

\* NaiveDate::signed_duration_since is a duration of whole days.
NaiveDate_days_until_expiration(self, utc_now) ==
    TryIntoU64(num_days((self - DateOf(utc_now)) * TicksPerDay))

DateTimeIsGood ==
    \E self \in Instants :
        /\ call' = Made("DateTime::is_good", self, now,
                        DateTime_is_good(self, now))
        /\ UNCHANGED <<now, credentials>>

DateTimeDaysUntilExpiration ==
    \E self \in Instants :
        /\ call' = Made("DateTime::days_until_expiration", self, now,
                        DateTime_days_until_expiration(self, now))
        /\ UNCHANGED <<now, credentials>>

NaiveDateIsGood ==
    \E self \in Dates :
        /\ call' = Made("NaiveDate::is_good", self, now,
                        NaiveDate_is_good(self, now))
        /\ UNCHANGED <<now, credentials>>

NaiveDateDaysUntilExpiration ==
    \E self \in Dates :
        /\ call' = Made("NaiveDate::days_until_expiration", self, now,
                        NaiveDate_days_until_expiration(self, now))
        /\ UNCHANGED <<now, credentials>>

InitLicense ==
    /\ call = NoCall
    /\ now = 0
    /\ credentials = NoCredentials

NextLicense ==
    \/ Tick
    \/ DateTimeIsGood
    \/ DateTimeDaysUntilExpiration
    \/ NaiveDateIsGood
    \/ NaiveDateDaysUntilExpiration

SpecLicense == InitLicense /\ [][NextLicense]_vars

----------------------------------------------------------------------------
(***************************************************************************)
(* credentials.rs: Credentials and the certificate's validity              *)
(*                                                                         *)
(* A certificate is its validity, [not_before, not_after], each a Time:    *)
(* a UtcTime or a GeneralTime holding an instant.                          *)
(***************************************************************************)
MaxCertTime == 3

Times ==
    {[kind |-> k, time |-> t] :
        k \in {"UtcTime", "GeneralTime"}, t \in 1..MaxCertTime}

Certificates ==
    {[validity |-> [not_before |-> nb, not_after |-> na]] :
        nb \in Times, na \in Times}

KeyPairs == {"key_pair_1", "key_pair_2"}

\* match time { UtcTime(time) => *time, GeneralTime(time) => from(time) }
TimeToDateTime(time) ==
    CASE time.kind = "UtcTime" -> time.time
      [] time.kind = "GeneralTime" -> time.time

is_date_valid_inclusive(self, other) ==
    LET not_before == TimeToDateTime(self.not_before)
        not_after == TimeToDateTime(self.not_after)
    IN  not_before <= other /\ other <= not_after

\* impl DateValidityExt for rfc5280::Validity
is_date_valid(self, other) ==
    LET not_before == TimeToDateTime(self.not_before)
        not_after == TimeToDateTime(self.not_after)
    IN  not_before < other /\ other < not_after

\* Credentials::is_valid
is_valid(self, utc_now) == is_date_valid(self.certificate.validity, utc_now)

IsDateValid ==
    \E other \in Instants :
        /\ call' = Made("is_date_valid",
                        [validity |-> credentials.certificate.validity,
                         other |-> other],
                        now,
                        is_date_valid(credentials.certificate.validity, other))
        /\ UNCHANGED <<now, credentials>>

IsValid ==
    /\ call' = Made("Credentials::is_valid", credentials, now,
                    is_valid(credentials, now))
    /\ UNCHANGED <<now, credentials>>

(***************************************************************************)
(* Credentials::refresh: the certification request is built and signed     *)
(* with the stored key pair (which may fail), it is sent to the operator   *)
(* (which may fail), and the certificate returned replaces the stored one. *)
(***************************************************************************)
RefreshOutcomes ==
    {[request |-> "err"], [request |-> "ok", operator |-> "err"]}
    \cup {[request |-> "ok", operator |-> "ok", certificate |-> c] :
              c \in Certificates}

refresh_with_new_key_pair(self, outcome) ==
    IF outcome.request = "err" THEN [self |-> self, ret |-> "Err"]
    ELSE IF outcome.operator = "err" THEN [self |-> self, ret |-> "Err"]
    ELSE [self |-> [certificate |-> outcome.certificate,
                    key_pair |-> "key_pair_2"],
          ret |-> "Ok"]

refresh(self, outcome) ==
    IF outcome.request = "err" THEN [self |-> self, ret |-> "Err"]
    ELSE IF outcome.operator = "err" THEN [self |-> self, ret |-> "Err"]
    ELSE [self |-> [self EXCEPT !.certificate = outcome.certificate],
          ret |-> "Ok"]

Refresh ==
    \E outcome \in RefreshOutcomes :
        LET r == refresh(credentials, outcome)
        IN  /\ credentials' = r.self
            /\ call' = Made("Credentials::refresh", outcome, now, r.ret)
            /\ UNCHANGED now

InitCredentials ==
    /\ call = NoCall
    /\ now = 0
    /\ credentials \in [certificate : Certificates, key_pair : KeyPairs]

NextCredentials ==
    \/ Tick
    \/ IsDateValid
    \/ IsValid
    \/ Refresh

SpecCredentials == InitCredentials /\ [][NextCredentials]_vars

----------------------------------------------------------------------------
(***************************************************************************)
(* Properties of credentials.rs                                            *)
(***************************************************************************)

(***************************************************************************)
(* C8 (SpecCredentials): for a certificate valid from T0 (not_before) to   *)
(* T1 (not_after), is_date_valid(t) is true exactly when T0 < t < T1:      *)
(* false at T0, at T1, before T0 and after T1; Credentials::is_valid is    *)
(* that check at the current UTC time.                                     *)
(***************************************************************************)
StrictlyBetween(validity, t) ==
    t \in (validity.not_before.time + 1)..(validity.not_after.time - 1)

C8_ValidStrictlyInsideWindow ==
    /\ Returns("is_date_valid") =>
        LET T0 == call.arg.validity.not_before.time
            T1 == call.arg.validity.not_after.time
            t == call.arg.other
        IN  /\ call.ret <=> StrictlyBetween(call.arg.validity, t)
            /\ (t = T0 \/ t = T1 \/ t < T0 \/ t > T1) => ~call.ret
    /\ Returns("Credentials::is_valid") =>
        LET validity == call.arg.certificate.validity
        IN  /\ call.ret <=> StrictlyBetween(validity, call.at)
            /\ call.at = now
            /\ call.arg = credentials

\* is_valid, asked at the very instant the certificate starts to run (with
\* the window not empty), answers false.
C8_Witness ==
    /\ Returns("Credentials::is_valid")
    /\ call.at = call.arg.certificate.validity.not_before.time
    /\ call.at + 1 < call.arg.certificate.validity.not_after.time
    /\ ~call.ret

(***************************************************************************)
(* C9 (SpecLicense): for a DateTime<Utc> expiration E and a current time   *)
(* N <= E, days_until_expiration returns the whole days of E - N,          *)
(* truncated, never rounded up: an expiration three days after an instant, *)
(* measured strictly later and less than a day later, has 2 days left.     *)
(***************************************************************************)
\* The k with k days <= d < k + 1 days.
WholeDays(d) ==
    CHOOSE k \in 0..(d + 1) :
        k * TicksPerDay <= d /\ d < (k + 1) * TicksPerDay

C9_WholeDaysTruncated ==
    (Returns("DateTime::days_until_expiration") /\ call.at <= call.arg) =>
        /\ call.ret = Some(WholeDays(call.arg - call.at))
        /\ \A today \in Instants :
               (/\ call.arg = today + 3 * TicksPerDay
                /\ today < call.at
                /\ call.at < today + TicksPerDay) => call.ret = Some(2)

C9_Witness ==
    /\ Returns("DateTime::days_until_expiration")
    /\ call.at = 1
    /\ call.arg = 3 * TicksPerDay
    /\ call.ret = Some(2)

(***************************************************************************)
(* C10 (SpecLicense): for a NaiveDate expiration D and the current UTC     *)
(* date T, is_good is true exactly when T <= D; days_until_expiration is   *)
(* Some(D - T) when T <= D (0 on the day itself, 3 when D is T + 3) and    *)
(* None when D is before T.                                                *)
(***************************************************************************)
\* The date of an instant: the day d with d days <= instant < d + 1 days.
Today(instant) ==
    CHOOSE d \in 0..instant :
        d * TicksPerDay <= instant /\ instant < (d + 1) * TicksPerDay

RefreshReturned == call'.fn = "Credentials::refresh"

C12_RefreshStep ==
    /\ credentials'.key_pair = credentials.key_pair
    /\ RefreshReturned =>
        /\ call'.ret = "Ok" <=>
               (call'.arg.request = "ok" /\ call'.arg.operator = "ok")
        /\ call'.ret = "Ok" =>
               credentials'.certificate = call'.arg.certificate
        /\ call'.ret = "Err" => credentials' = credentials

C12_RefreshKeepsKeyPair == [][C12_RefreshStep]_vars

\* A refresh that succeeded, and the certificate it stored.
C12_Witness ==
    /\ call.fn = "Credentials::refresh"
    /\ call.ret = "Ok"
    /\ credentials.certificate = call.arg.certificate
    /\ credentials.key_pair = "key_pair_1"

(***************************************************************************)
(* C13 (SpecLicense): for both implementations of LicenseValidity, at one  *)
(* and the same current time, an expiration that is not good reports no    *)
(* days left: is_good() false means days_until_expiration() is None, and   *)
(* days_until_expiration() Some(n) means is_good() is true.                *)
(***************************************************************************)
C13_NotGoodMeansNoDaysLeft ==
    /\ Returns("DateTime::days_until_expiration") =>
        /\ ~DateTime_is_good(call.arg, call.at) => call.ret = None
        /\ call.ret.some => DateTime_is_good(call.arg, call.at)
    /\ Returns("DateTime::is_good") =>
        (~call.ret =>
            DateTime_days_until_expiration(call.arg, call.at) = None)
    /\ Returns("NaiveDate::days_until_expiration") =>
        /\ ~NaiveDate_is_good(call.arg, call.at) => call.ret = None
        /\ call.ret.some => NaiveDate_is_good(call.arg, call.at)
    /\ Returns("NaiveDate::is_good") =>
        (~call.ret =>
            NaiveDate_days_until_expiration(call.arg, call.at) = None)

=============================================================================
